---- MODULE Spec2Model ----
(***************************************************************************)
(* Translation job tracker of api/index.py: the process-wide job store,    *)
(* the submit (GET /api/gltf), poll (GET /api/gltf/{tid}) and webhook      *)
(* (POST /api/event) branches of handler(), and the upstream CAD service   *)
(* they talk to.                                                           *)
(***************************************************************************)
EXTENDS Integers, Sequences, FiniteSets, TLC

\* ------------------------------------------------------------------------
\* Bounds
\* ------------------------------------------------------------------------
\* number of distinct job identifiers the upstream can issue
MaxIds == 1
\* the number of job ids where several jobs are looked at side by side
MaxIsoIds == 2
\* the number of requests that may be in flight at the same time
MaxProcs == 2
Ids == 1..MaxIds
\* "no id": data.get("id") / parsed_body.get("translationId") returned None
NoId == 0

\* Python None for string-valued fields
None == "None"

\* ------------------------------------------------------------------------
\* Responses (the dict returned to the Vercel runtime)
\* ------------------------------------------------------------------------
\* statusCode, Content-Type header, and the body: its message, the variable
\* strings it embeds, and the job id it carries (NoId when it carries none).
Response(code, ctype, msg, args, id) ==
    [statusCode |-> code, ctype |-> ctype, msg |-> msg, args |-> args, id |-> id]

json_response(code, msg, args, id) ==
    Response(code, "application/json", msg, args, id)

raw_response(code, body, content_type) ==
    Response(code, content_type, "raw", body, NoId)

\* the handler raised an exception that no except clause catches
Unhandled(exc) == Response(0, None, "unhandled exception", <<exc>>, NoId)

\* ------------------------------------------------------------------------
\* _validate_required_params
\* ------------------------------------------------------------------------
\* query values: absent, the empty string, or a non-empty string
QueryValues == {None, "", "v"}

Falsy(v) == v = None \/ v = ""

\* as validate_required_params, but a parameter given as the empty string
\* counts as present
validate_required_params_is_none(query_data, required) ==
    SelectSeq(required, LAMBDA param : query_data[param] = None)

\* the list of missing parameters; the empty list stands for "return None"
validate_required_params(query_data, required) ==
    SelectSeq(required, LAMBDA param : Falsy(query_data[param]))

required_main == <<"documentId", "workspaceId", "gltfElementId">>

\* ------------------------------------------------------------------------
\* _onshape_api_request
\* ------------------------------------------------------------------------
\* net is what the network does with the call: "RequestError" (httpx raised
\* a RequestError), "Exception" (anything else raised) or "Response".
\* Returns the error dict (is_dict) or the httpx.Response itself.
onshape_api_request(method, net) ==
    IF method \notin {"GET", "POST"}
    THEN [is_dict |-> TRUE,
          dict |-> json_response(405, "HTTP method not implemented in API request helper.", <<method>>, NoId)]
    ELSE IF net.outcome = "RequestError"
    THEN [is_dict |-> TRUE,
          dict |-> json_response(502, "Onshape API request failed", <<>>, NoId)]
    ELSE IF net.outcome = "Exception"
    THEN [is_dict |-> TRUE,
          dict |-> json_response(500, "An unexpected error occurred", <<>>, NoId)]
    ELSE [is_dict |-> FALSE, dict |-> json_response(0, "", <<>>, NoId)]

\* ------------------------------------------------------------------------
\* The upstream service and the network, as seen through httpx
\* ------------------------------------------------------------------------
\* One shape for every outcome of an upstream call.  outcome is "Response",
\* "RequestError" or "Exception"; the other fields are those of the
\* httpx.Response that the handler reads: status_code, whether .json()
\* parses (json_ok), the JSON keys id, requestState, failureReason,
\* documentId and resultExternalDataIds (None / has = FALSE when the key is
\* absent), the content-type header and the content.
Net(outcome, code, json_ok, id, rs, reason, doc, has_ext, ext, ctype, content) ==
    [outcome |-> outcome, status_code |-> code, json_ok |-> json_ok, id |-> id,
     requestState |-> rs, failureReason |-> reason, documentId |-> doc,
     resultExternalDataIds |-> [has |-> has_ext, list |-> ext],
     content_type |-> ctype, content |-> content]

NetRaise(outcome) ==
    Net(outcome, 0, FALSE, NoId, None, None, None, FALSE, <<>>, None, <<>>)
NetHttp(code) ==
    Net("Response", code, TRUE, NoId, None, None, None, FALSE, <<>>, None, <<>>)
NetBadJson(code) ==
    Net("Response", code, FALSE, NoId, None, None, None, FALSE, <<>>, None, <<>>)
NetStatus(rs, reason, doc, has_ext, ext) ==
    Net("Response", 200, TRUE, NoId, rs, reason, doc, has_ext, ext, None, <<>>)
NetAccepted(id) ==
    Net("Response", 200, TRUE, id, None, None, None, FALSE, <<>>, None, <<>>)
NetData(code, ctype, content) ==
    Net("Response", code, FALSE, NoId, None, None, None, FALSE, <<>>, ctype, content)

\* no upstream call was made
NoNet == NetRaise("NoCall")

\* status codes with which the upstream refuses a call
ErrorCodes == {404}
\* failure reasons the upstream may give
Reasons == {"R1", "R2"}
\* result locator of a finished translation
DocIds == {None, "D1"}
ExtIdLists == {<<>>, <<"">>, <<"X1", "X2">>}
GltfType == "model/gltf+json"

\* the bytes the upstream stores at /documents/d/{doc}/externaldata/{ext}
Artifact(doc, ext) == <<doc, ext>>

Faults ==
    {NetRaise("RequestError"), NetRaise("Exception")}
      \cup {NetHttp(c) : c \in ErrorCodes}
      \cup {NetBadJson(200)}

\* What GET /translations/{tid} may answer when the upstream holds the job in
\* state u ("NONE": the upstream has no such job).
StatusReplies(u) ==
    Faults
      \cup (IF u = "NONE" THEN {}
            ELSE {NetStatus(None, None, None, FALSE, <<>>)})
      \cup (IF u = "ACTIVE"
            THEN {NetStatus(rs, None, None, FALSE, <<>>) : rs \in {"ACTIVE", "PENDING"}}
            ELSE {})
      \cup (IF u = "FAILED"
            THEN {NetStatus("FAILED", r, None, FALSE, <<>>) : r \in Reasons \cup {None}}
            ELSE {})
      \cup (IF u = "DONE"
            THEN {NetStatus("DONE", None, d, FALSE, <<>>) : d \in DocIds}
                   \cup {NetStatus("DONE", None, d, TRUE, l) : d \in DocIds, l \in ExtIdLists}
            ELSE {})

\* What GET /documents/d/{doc}/externaldata/{ext} may answer.
DataReplies(doc, ext) ==
    {NetRaise("RequestError")}
      \cup {NetData(c, None, <<>>) : c \in ErrorCodes}
      \cup {NetData(200, ct, Artifact(doc, ext)) : ct \in {None, GltfType}}

\* What POST .../translations may answer; fresh is the set of ids the
\* upstream has not issued yet.
SubmitReplies(fresh) ==
    Faults
      \cup {NetBadJson(c) : c \in ErrorCodes}
      \cup {NetAccepted(NoId)}
      \cup {NetAccepted(t) : t \in fresh}

\* ------------------------------------------------------------------------
\* The job store
\* ------------------------------------------------------------------------
\* in_memory_data_store as a total function: Absent for a missing key
Absent == "absent"
InProgress == "in-progress"
CompletedByWebhook == "completed_by_webhook"
Phases == {InProgress, CompletedByWebhook}

\* as pop, but the whole store is emptied
pop_clears_all(store, tid) == [t \in DOMAIN store |-> Absent]

\* in_memory_data_store.pop(tid, None)
pop(store, tid) == [store EXCEPT ![tid] = Absent]
\* in_memory_data_store[tid] = phase
put(store, tid, phase) == [store EXCEPT ![tid] = phase]

\* one upstream call made by a request
Call(endpoint, net) == [endpoint |-> endpoint, net |-> net]

\* what a request did: its response, the store it leaves, its upstream calls
Outcome(resp, store, calls) == [response |-> resp, store |-> store, calls |-> calls]

\* ------------------------------------------------------------------------
\* handler: GET /api/gltf (trigger translation)
\* ------------------------------------------------------------------------
\* Any of the required parameters may be lacking: all the lacking ones absent,
\* or all of them empty.  partId is optional and looked at only once the
\* validation has passed.
Queries ==
    {query \in [documentId : QueryValues, workspaceId : QueryValues,
                gltfElementId : QueryValues, partId : {None, "v"}] :
        LET given == {query.documentId, query.workspaceId, query.gltfElementId}
        IN  /\ ~({None, ""} \subseteq given)
            /\ (query.partId = None \/ given = {"v"})}

\* the upstream endpoint of the translation request: part studio or assembly
translations_endpoint(query) ==
    IF ~Falsy(query.partId) THEN "POST /partstudios/translations"
    ELSE "POST /assemblies/translations"

\* as record_submission, but the record is written in the wrong phase
record_submission_wrong_phase(store, tid) ==
    IF tid # NoId THEN put(store, tid, CompletedByWebhook) ELSE store

\* the store write of an accepted submission (lines 218-220)
record_submission(store, tid) ==
    IF tid # NoId THEN put(store, tid, InProgress) ELSE store

gltf_submit(store, query, net) ==
    LET param_error == validate_required_params(query, required_main)
        onshape_resp == onshape_api_request("POST", net)
        calls == <<Call(translations_endpoint(query), net)>>
        tid == net.id
    IN  IF param_error # <<>>
        THEN Outcome(json_response(400, "Missing required query parameters", param_error, NoId),
                     store, <<>>)
        ELSE IF onshape_resp.is_dict
        THEN Outcome(onshape_resp.dict, store, calls)
        ELSE IF net.status_code = 200
        THEN IF ~net.json_ok
             THEN Outcome(json_response(500, "Failed to parse Onshape translation initiation response.", <<>>, NoId),
                          store, calls)
             ELSE Outcome(json_response(200, "data", <<>>, tid),
                          record_submission(store, tid),
                          calls)
        ELSE Outcome(json_response(net.status_code, "Failed to initiate GLTF translation.",
                                   <<IF net.json_ok THEN "onshape_details" ELSE "error_text">>, NoId),
                     store, calls)

\* ------------------------------------------------------------------------
\* handler: GET /api/gltf/{tid} (get translation result)
\* ------------------------------------------------------------------------
\* str.lower() on the request states the upstream reports
lower(str) ==
    CASE str = "ACTIVE" -> "active"
      [] str = "PENDING" -> "pending"
      [] OTHER -> str

\* httpx.Response.raise_for_status(): raises HTTPStatusError unless 2xx
raise_for_status(code) == ~(code >= 200 /\ code < 300)

\* as gltf_download, but a network error during the download leaves the
\* record in the store
gltf_download_keeps_on_error(store, tid, status_call, data_net) ==
    LET calls == <<status_call, Call("GET /documents/externaldata", data_net)>>
    IN  IF data_net.outcome = "RequestError"
        THEN Outcome(json_response(502, "Network error downloading GLTF data", <<>>, NoId),
                     store, calls)
        ELSE IF raise_for_status(data_net.status_code)
        THEN Outcome(json_response(data_net.status_code, "Failed to download GLTF data from Onshape", <<>>, NoId),
                     pop(store, tid), calls)
        ELSE Outcome(raw_response(data_net.status_code, data_net.content,
                                  IF data_net.content_type = None
                                  THEN "application/octet-stream"
                                  ELSE data_net.content_type),
                     pop(store, tid), calls)

\* the artifact fetch and the removal of the record (lines 289-317)
gltf_download(store, tid, status_call, data_net) ==
    LET calls == <<status_call, Call("GET /documents/externaldata", data_net)>>
    IN  IF data_net.outcome = "RequestError"
        THEN Outcome(json_response(502, "Network error downloading GLTF data", <<>>, NoId),
                     pop(store, tid), calls)
        ELSE IF raise_for_status(data_net.status_code)
        THEN Outcome(json_response(data_net.status_code, "Failed to download GLTF data from Onshape", <<>>, NoId),
                     pop(store, tid), calls)
        ELSE Outcome(raw_response(data_net.status_code, data_net.content,
                                  IF data_net.content_type = None
                                  THEN "application/octet-stream"
                                  ELSE data_net.content_type),
                     pop(store, tid), calls)

\* as gltf_still_running, but the record is cleared as in the FAILED branch
gltf_still_running_clears(store, tid, request_state, calls) ==
    Outcome(IF request_state = None
            THEN Unhandled("AttributeError")
            ELSE json_response(202, "Translation is", <<lower(request_state)>>, NoId),
            pop(store, tid), calls)

\* the upstream reports a state other than FAILED and DONE (lines 269-272):
\* the record is written back, then the answer is built from the state's name
gltf_still_running(store, tid, request_state, calls) ==
    Outcome(IF request_state = None
            THEN Unhandled("AttributeError")
            ELSE json_response(202, "Translation is", <<lower(request_state)>>, NoId),
            put(store, tid, InProgress), calls)

\* as gltf_status_unusable, but the record is cleared
gltf_status_unusable_clears(store, tid, response, calls) ==
    Outcome(response, pop(store, tid), calls)

\* the status query gave no usable status (lines 254-263): the error is
\* returned and the store is not touched
gltf_status_unusable(store, tid, response, calls) ==
    Outcome(response, store, calls)

\* as result_info_missing, but only the document id is looked at
result_info_missing_doc_only(doc_id, ext_id_list) ==
    Falsy(doc_id)

\* not doc_id or not ext_id_list or not ext_id_list[0] (line 278)
result_info_missing(doc_id, ext_id_list) ==
    Falsy(doc_id) \/ ~ext_id_list.has \/ ext_id_list.list = <<>>
        \/ Falsy(ext_id_list.list[1])

\* the dispatch on the upstream's status answer (lines 250-281)
gltf_status(store, tid, status_net, data_net) ==
    LET onshape_status_resp == onshape_api_request("GET", status_net)
        status_call == Call("GET /translations", status_net)
        calls == <<status_call>>
        request_state == status_net.requestState
        doc_id == status_net.documentId
        ext_id_list == status_net.resultExternalDataIds
    IN  IF onshape_status_resp.is_dict
        THEN gltf_status_unusable(store, tid, onshape_status_resp.dict, calls)
        ELSE IF status_net.status_code # 200
        THEN gltf_status_unusable(store, tid,
                 json_response(status_net.status_code, "Failed to get translation status from Onshape.", <<>>, NoId),
                 calls)
        ELSE IF ~status_net.json_ok
        THEN gltf_status_unusable(store, tid,
                 json_response(500, "Failed to parse Onshape translation status response.", <<>>, NoId),
                 calls)
        ELSE IF request_state = "FAILED"
        THEN Outcome(json_response(500, "Onshape translation failed.",
                                   <<IF status_net.failureReason = None THEN "Unknown"
                                     ELSE status_net.failureReason>>, NoId),
                     pop(store, tid), calls)
        ELSE IF request_state # "DONE"
        THEN gltf_still_running(store, tid, request_state, calls)
        ELSE IF result_info_missing(doc_id, ext_id_list)
        THEN Outcome(json_response(500, "Translation result info missing from Onshape response.", <<>>, NoId),
                     store, calls)
        ELSE gltf_download(store, tid, status_call, data_net)

\* the whole branch: the store lookup first (lines 240-248)
gltf_result(store, tid, status_net, data_net) ==
    LET translation_status == store[tid]
    IN  IF translation_status = InProgress
        THEN Outcome(json_response(202, "Translation in progress.", <<>>, NoId), store, <<>>)
        ELSE gltf_status(store, tid, status_net, data_net)

\* ------------------------------------------------------------------------
\* handler: POST /api/event (receive event)
\* ------------------------------------------------------------------------
CompleteEvent == "onshape.model.translation.complete"

\* A request body: kind is "invalid" (json.loads raises), "empty" (no body:
\* parsed_body is {}), "falsy" (JSON null, 0, "", [] or {}), "nonobject" (any
\* other JSON value that is not an object) or "object", which carries the keys
\* event and translationId (None / NoId when absent or empty).
Body(kind, event, translationId) ==
    [kind |-> kind, event |-> event, translationId |-> translationId]

BodiesOver(ids) ==
    {Body(k, None, NoId) : k \in {"invalid", "empty", "falsy", "nonobject"}}
      \cup {Body("object", e, t) : e \in {None, CompleteEvent, "other"}, t \in ids \cup {NoId}}

Bodies == BodiesOver(Ids)

event(store, parsed_body) ==
    IF parsed_body.kind = "invalid"
    THEN Outcome(json_response(400, "Invalid JSON in request body.", <<>>, NoId), store, <<>>)
    ELSE IF parsed_body.kind = "nonobject"
    THEN Outcome(Unhandled("AttributeError"), store, <<>>)
    ELSE LET translation_id == parsed_body.translationId
         IN  Outcome(json_response(200, "Webhook event received.", <<>>, NoId),
                     IF parsed_body.kind = "object" /\ parsed_body.event = CompleteEvent
                          /\ translation_id # NoId
                     THEN put(store, translation_id, CompletedByWebhook)
                     ELSE store,
                     <<>>)

\* ------------------------------------------------------------------------
\* State
\* ------------------------------------------------------------------------
VARIABLES
    in_memory_data_store,   \* the job store: Ids -> Phases or Absent
    upstream,               \* the upstream's state of each translation
    submitted,              \* ids that a successful submission returned
    named,                  \* ids that some request has named so far
    last,                   \* the last request served and what it did
    inflight,               \* the requests in flight, step by step
    hinted                  \* ids with a webhook notification no poll has met yet

vars == <<in_memory_data_store, upstream, submitted, named, last, inflight, hinted>>

Procs == 1..MaxProcs

\* a request slot with no request in it
Idle ==
    [op |-> "none", pc |-> "idle", tid |-> NoId, found |-> Absent,
     query |-> [documentId |-> None, workspaceId |-> None, gltfElementId |-> None, partId |-> None],
     body |-> Body("none", None, NoId), net |-> NoNet,
     response |-> json_response(0, "", <<>>, NoId),
     concurrent |-> FALSE, stale |-> FALSE, overwrote |-> FALSE, after_hook |-> FALSE]

UpstreamStates == {"NONE", "ACTIVE", "DONE", "FAILED"}

NoQuery == [documentId |-> None, workspaceId |-> None, gltfElementId |-> None, partId |-> None]
NoBody == Body("none", None, NoId)

\* the record of a served request about job tid (NoId: about none); found is
\* what the store held for tid when the request arrived, first whether no
\* earlier request had named tid, touched the ids whose store entry the
\* request changed; seq flips with every request, so that a request that
\* repeats the one before it is still a step
Served(op, tid, query, body, before, out) ==
    [op |-> op, tid |-> tid, seq |-> ~last.seq,
     query |-> query, body |-> body,
     found |-> IF tid # NoId THEN before[tid] ELSE Absent,
     first |-> tid # NoId /\ tid \notin named,
     touched |-> {t \in DOMAIN before : out.store[t] # before[t]},
     response |-> out.response, calls |-> out.calls]

Init ==
    /\ in_memory_data_store = [t \in Ids |-> Absent]
    /\ upstream = [t \in Ids |-> "NONE"]
    /\ submitted = {}
    /\ named = {}
    /\ last = [op |-> "none", tid |-> NoId, seq |-> FALSE, query |-> NoQuery, body |-> NoBody,
               found |-> Absent, first |-> FALSE, touched |-> {},
               response |-> json_response(0, "", <<>>, NoId), calls |-> <<>>]
    /\ inflight = [p \in Procs |-> Idle]
    /\ hinted = {}

\* ------------------------------------------------------------------------
\* Requests
\* ------------------------------------------------------------------------
\* GET /api/gltf?...: the upstream accepts the translation under a fresh id,
\* or refuses, or the call fails
Submit(query, net) ==
    LET out == gltf_submit(in_memory_data_store, query, net)
        accepted == out.calls # <<>> /\ net.outcome = "Response"
                      /\ net.status_code = 200 /\ net.json_ok /\ net.id # NoId
    IN  /\ in_memory_data_store' = out.store
        /\ upstream' = IF accepted THEN [upstream EXCEPT ![net.id] = "ACTIVE"] ELSE upstream
        /\ submitted' = IF out.response.statusCode = 200 /\ out.response.id # NoId
                        THEN submitted \cup {out.response.id} ELSE submitted
        /\ named' = named \cup ({out.response.id} \ {NoId})
        /\ last' = Served("submit", out.response.id, query, NoBody, in_memory_data_store, out)
        /\ UNCHANGED <<inflight, hinted>>

\* GET /api/gltf/{tid}
Poll(tid, status_net, data_net) ==
    LET out == gltf_result(in_memory_data_store, tid, status_net, data_net)
    IN  /\ in_memory_data_store' = out.store
        /\ named' = named \cup {tid}
        /\ last' = Served("poll", tid, NoQuery, NoBody, in_memory_data_store, out)
        /\ UNCHANGED <<upstream, submitted, inflight, hinted>>

\* POST /api/event
Event(body) ==
    LET out == event(in_memory_data_store, body)
    IN  /\ in_memory_data_store' = out.store
        /\ named' = named \cup ({body.translationId} \ {NoId})
        /\ last' = Served("event", body.translationId, NoQuery, body, in_memory_data_store, out)
        /\ UNCHANGED <<upstream, submitted, inflight, hinted>>

\* ------------------------------------------------------------------------
\* The upstream's own steps
\* ------------------------------------------------------------------------
\* a translation requested by some other client or instance
UpstreamForeign(t) ==
    /\ upstream[t] = "NONE"
    /\ upstream' = [upstream EXCEPT ![t] = "ACTIVE"]
    /\ UNCHANGED <<in_memory_data_store, submitted, named, last, inflight, hinted>>

UpstreamDone(t) ==
    /\ upstream[t] = "ACTIVE"
    /\ upstream' = [upstream EXCEPT ![t] = "DONE"]
    /\ UNCHANGED <<in_memory_data_store, submitted, named, last, inflight, hinted>>

UpstreamFailed(t) ==
    /\ upstream[t] = "ACTIVE"
    /\ upstream' = [upstream EXCEPT ![t] = "FAILED"]
    /\ UNCHANGED <<in_memory_data_store, submitted, named, last, inflight, hinted>>

\* the data replies that go with a status reply: those of the locator it
\* names, or no call at all when it names none
DataRepliesFor(status_net) ==
    IF status_net.documentId # None /\ status_net.resultExternalDataIds.list # <<>>
    THEN DataReplies(status_net.documentId, status_net.resultExternalDataIds.list[1])
    ELSE {NoNet}

Fresh == {t \in DOMAIN upstream : upstream[t] = "NONE"}

\* the replies that go with a submission: none when it is refused before the
\* upstream is called
SubmitRepliesFor(query) ==
    IF validate_required_params(query, required_main) = <<>>
    THEN SubmitReplies(Fresh)
    ELSE {NoNet}

Next ==
    \/ \E query \in Queries :
          \E net \in SubmitRepliesFor(query) : Submit(query, net)
    \/ \E tid \in Ids :
          \E status_net \in StatusReplies(upstream[tid]) :
             \E data_net \in DataRepliesFor(status_net) : Poll(tid, status_net, data_net)
    \/ \E body \in Bodies : Event(body)
    \/ \E t \in Ids : UpstreamForeign(t)
    \/ \E t \in Ids : UpstreamDone(t)
    \/ \E t \in Ids : UpstreamFailed(t)

Spec == Init /\ [][Next]_vars

TypeOK ==
    /\ in_memory_data_store \in [Ids -> Phases \cup {Absent}]
    /\ upstream \in [Ids -> UpstreamStates]
    /\ submitted \subseteq Ids
    /\ named \subseteq Ids
    /\ last.seq \in BOOLEAN

\* ------------------------------------------------------------------------
\* Vocabulary of the properties
\* ------------------------------------------------------------------------
\* the response hands the artifact bytes back
IsArtifact(resp) == resp.msg = "raw" /\ resp.statusCode = 200

\* a request has just been served by this step
Serves(op) == last'.op = op /\ last'.seq # last.seq

\* the request served last was a poll that asked the upstream for the status
\* and was given requestState rs
PolledStatus(rs) ==
    /\ last.op = "poll"
    /\ last.calls # <<>>
    /\ last.calls[1].net.outcome = "Response"
    /\ last.calls[1].net.status_code = 200
    /\ last.calls[1].net.json_ok
    /\ last.calls[1].net.requestState = rs

\* ------------------------------------------------------------------------
\* Properties
\* ------------------------------------------------------------------------

\* C1: at-most-once delivery.  Once a poll of X has returned the artifact,
\* the next request, if it is a poll of X again, never returns the artifact a
\* second time, whatever the upstream does in between (the poll is to be
\* answered "not found" instead).
C1_AtMostOnce ==
    [][ ( /\ last.op = "poll" /\ IsArtifact(last.response)
          /\ Serves("poll") /\ last'.tid = last.tid )
        => ~IsArtifact(last'.response) ]_vars

\* C3: a poll of an id that no submission returned and that no earlier
\* request named is answered neither 202 nor with an artifact, whatever the
\* upstream knows about that id (the poll is to be answered "not found").
C3_UnknownIdNotFound ==
    (last.op = "poll" /\ last.first /\ last.tid \notin submitted)
        => (last.response.statusCode # 202 /\ ~IsArtifact(last.response))

\* C4: a poll of a submitted id while the upstream still works on the
\* translation (the status answer, when the poll asks for one, reports ACTIVE
\* or PENDING) is answered 202 and the record stays in the store, with or
\* without an earlier webhook notification.
C4_InProgressBeforeCompletion ==
    ( /\ last.op = "poll"
      /\ last.tid \in submitted
      /\ upstream[last.tid] = "ACTIVE"
      /\ (last.calls = <<>> \/ PolledStatus("ACTIVE") \/ PolledStatus("PENDING")) )
    => ( /\ last.response.statusCode = 202
         /\ ~IsArtifact(last.response)
         /\ in_memory_data_store[last.tid] \in Phases )

\* C4 witness: the webhook came early, the poll asked the upstream, the
\* upstream said PENDING and the poll answered 202.
C4_Witness ==
    /\ last.op = "poll"
    /\ last.tid \in submitted
    /\ upstream[last.tid] = "ACTIVE"
    /\ last.found = CompletedByWebhook
    /\ PolledStatus("PENDING")
    /\ last.response.statusCode = 202

\* the response reports the failure of the translation
IsFailureReport(resp) == resp.statusCode = 500 /\ resp.msg = "Onshape translation failed."

\* C5: failure is reported exactly once.  A poll that is told FAILED with
\* reason R answers 500 with exactly R and removes X; the next request, if it
\* is a poll of X again, does not report the failure again (it is to be
\* answered "not found").
C5_FailureReportedOnce ==
    [][ /\ ( ( /\ Serves("poll")
               /\ last'.calls # <<>>
               /\ last'.calls[1].net.requestState = "FAILED"
               /\ last'.calls[1].net.failureReason # None )
             => ( /\ last'.response.statusCode = 500
                  /\ last'.response.args = <<last'.calls[1].net.failureReason>>
                  /\ in_memory_data_store'[last'.tid] = Absent ) )
        /\ ( ( /\ PolledStatus("FAILED")
               /\ Serves("poll") /\ last'.tid = last.tid )
             => ~IsFailureReport(last'.response) ) ]_vars

\* C6: a webhook notification whose translationId has no record in the store
\* is answered 200 and leaves the store as it was.
C6_UnknownWebhookNoEffect ==
    [][ ( /\ Serves("event")
          /\ last'.tid # NoId
          /\ in_memory_data_store[last'.tid] = Absent )
        => ( /\ last'.response.statusCode = 200
             /\ in_memory_data_store' = in_memory_data_store ) ]_vars

\* C7: every request to POST /api/event is answered 200, whatever its body.
C7_WebhookAlways200 ==
    last.op = "event" => last.response.statusCode = 200

\* C8: webhook non-interference.  For a submitted job that the store records
\* in progress and that the upstream reports DONE with a result locator, the
\* poll that follows a webhook notification for the id and the poll with no
\* preceding webhook give the same response and leave the same store.
C8_WebhookNonInterference ==
    \A tid \in submitted :
       (in_memory_data_store[tid] = InProgress /\ upstream[tid] = "DONE") =>
          \A status_net \in StatusReplies("DONE") :
             \A data_net \in DataRepliesFor(status_net) :
                LET hooked == event(in_memory_data_store, Body("object", CompleteEvent, tid)).store
                    with_hook == gltf_result(hooked, tid, status_net, data_net)
                    without == gltf_result(in_memory_data_store, tid, status_net, data_net)
                IN  (status_net.requestState = "DONE" /\ data_net # NoNet) =>
                       /\ with_hook.response = without.response
                       /\ with_hook.store = without.store

\* the required parameters of a submission that the query lacks
Lacking(query) ==
    {param \in {"documentId", "workspaceId", "gltfElementId"} :
        query[param] = None \/ query[param] = ""}

\* the strings a response body embeds
Embedded(resp) == {resp.args[i] : i \in 1..Len(resp.args)}

\* C9: a submission that lacks a required parameter is answered 400 naming
\* exactly the parameters it lacks, makes no upstream call and leaves the
\* store unchanged.
C9_MissingParams ==
    (last.op = "submit" /\ Lacking(last.query) # {})
        => ( /\ last.response.statusCode = 400
             /\ Embedded(last.response) = Lacking(last.query)
             /\ last.calls = <<>>
             /\ last.touched = {} )

\* C9 witness: a submission without workspaceId and gltfElementId was
\* answered 400.
C9_Witness ==
    /\ last.op = "submit"
    /\ last.query.documentId = "v"
    /\ last.query.workspaceId = None
    /\ last.query.gltfElementId = None
    /\ last.response.statusCode = 400
    /\ last.calls = <<>>

\* the upstream accepted the translation: HTTP 200 whose JSON carries an id
Accepted(calls) ==
    /\ calls # <<>>
    /\ calls[1].net.outcome = "Response"
    /\ calls[1].net.status_code = 200
    /\ calls[1].net.json_ok
    /\ calls[1].net.id # NoId

\* the status code the caller of a failed submission is to receive
FailedSubmissionCode(net) ==
    CASE net.outcome = "RequestError" -> 502
      [] net.outcome = "Exception" -> 500
      [] net.status_code # 200 -> net.status_code
      [] ~net.json_ok -> 500
      [] OTHER -> 200

\* C10: a submission creates a record only when the upstream accepted the
\* translation, and creates it in progress under the id the upstream gave;
\* a submission that reached the upstream and failed leaves the store
\* unchanged and hands the caller the error or the upstream's answer.
C10_RecordOnlyOnAcceptance ==
    last.op = "submit" =>
       IF Accepted(last.calls)
       THEN /\ in_memory_data_store[last.calls[1].net.id] = InProgress
            /\ last.touched \subseteq {last.calls[1].net.id}
            /\ last.response.statusCode = 200
            /\ last.response.id = last.calls[1].net.id
       ELSE /\ last.touched = {}
            /\ last.response.id = NoId
            /\ last.calls # <<>> =>
                  last.response.statusCode = FailedSubmissionCode(last.calls[1].net)

\* C10 witness: the upstream accepted a submission and the id it gave, which
\* had no record, is now recorded in progress.
C10_Witness ==
    /\ last.op = "submit"
    /\ last.calls # <<>>
    /\ Accepted(last.calls)
    /\ last.found = Absent
    /\ last.touched = {last.tid}
    /\ in_memory_data_store[last.tid] = InProgress

\* ------------------------------------------------------------------------
\* Liveness: the caller keeps polling and the upstream finishes its work
\* ------------------------------------------------------------------------
PollOf(tid) ==
    \E status_net \in StatusReplies(upstream[tid]) :
       \E data_net \in DataRepliesFor(status_net) : Poll(tid, status_net, data_net)

\* every job is polled again and again, and a translation the upstream works
\* on does not stay ACTIVE for ever
LiveSpec ==
    /\ Spec
    /\ \A tid \in Ids : WF_vars(PollOf(tid))
    /\ \A tid \in Ids : WF_vars(UpstreamDone(tid) \/ UpstreamFailed(tid))

\* the poll path has taken the job up: a poll of tid asked the upstream
\* (and so either handed the artifact back or met what the upstream said)
Delivered(tid) == last.op = "poll" /\ last.tid = tid /\ IsArtifact(last.response)
PollReachedUpstream(tid) == last.op = "poll" /\ last.tid = tid /\ last.calls # <<>>

\* what takes a job out of the poll-only case: a webhook notification for it,
\* or the upstream failing the translation
NotPollOnly(tid) ==
    \/ last.op = "event" /\ last.tid = tid
    \/ upstream[tid] = "FAILED"

\* C2: poll-only liveness.  A submitted job that the store records in
\* progress and that the upstream has finished (DONE) is, under continued
\* polling and with no webhook notification, eventually taken up by the poll
\* path: some poll asks the upstream for it and hands the artifact back or
\* reports what the upstream said.
C2_PollOnlyLiveness ==
    \A tid \in Ids :
       (tid \in submitted /\ in_memory_data_store[tid] = InProgress /\ upstream[tid] = "DONE")
          ~> (Delivered(tid) \/ PollReachedUpstream(tid) \/ NotPollOnly(tid))

\* ------------------------------------------------------------------------
\* Properties of retrieval, failure and the webhook marker
\* ------------------------------------------------------------------------
\* the status answer names a result locator: a document id and a first
\* external-data id
HasLocator(net) ==
    /\ net.documentId # None /\ net.documentId # ""
    /\ net.resultExternalDataIds.has
    /\ Len(net.resultExternalDataIds.list) >= 1
    /\ net.resultExternalDataIds.list[1] # ""

\* the upstream calls of the request served last that fetch artifact data
Downloads == {i \in 1..Len(last.calls) : last.calls[i].endpoint = "GET /documents/externaldata"}

\* C11: unconditional removal on retrieval.  A poll that is told DONE with a
\* result locator attempts the download exactly once and leaves X absent from
\* the store, whether the download succeeded, was refused or failed on the
\* network.
C11_RemovalOnRetrieval ==
    (PolledStatus("DONE") /\ HasLocator(last.calls[1].net))
        => ( /\ Cardinality(Downloads) = 1
             /\ in_memory_data_store[last.tid] = Absent )

\* C11 witness: the record was there, the download failed on the network and
\* the record is gone.
C11_Witness ==
    /\ PolledStatus("DONE")
    /\ last.found = CompletedByWebhook
    /\ Len(last.calls) = 2
    /\ last.calls[2].net.outcome = "RequestError"
    /\ last.response.statusCode = 502
    /\ in_memory_data_store[last.tid] = Absent

\* C12: protocol violation.  A poll that is told DONE without the result
\* information answers 500 and removes X from the store.
C12_MissingInfoRemoves ==
    (PolledStatus("DONE") /\ ~HasLocator(last.calls[1].net))
        => ( /\ last.response.statusCode = 500
             /\ in_memory_data_store[last.tid] = Absent )

\* C16: no resurrection.  Once a poll has removed the record of X, the request
\* that follows, if it is a poll or a webhook notification for X, does not put
\* a record for X back.
C16_NoResurrection ==
    [][ ( /\ last.op = "poll" /\ last.found \in Phases
          /\ in_memory_data_store[last.tid] = Absent
          /\ (Serves("poll") \/ Serves("event"))
          /\ last'.tid = last.tid )
        => in_memory_data_store'[last.tid] = Absent ]_vars

\* C17: store membership.  Every id that has a record in the store was
\* returned by a successful submission; no record exists for an id that was
\* never submitted.
C17_StoreMembership ==
    \A t \in Ids : in_memory_data_store[t] # Absent => t \in submitted

\* C18: the webhook is only a hint.  A webhook request makes no upstream call;
\* whoever fetches artifact data or returns an artifact is a poll that has,
\* in the same request and before the fetch, been told DONE with a result
\* locator by the status query.
C18_WebhookOnlyHint ==
    /\ last.op = "event" => last.calls = <<>>
    /\ (Downloads # {} \/ IsArtifact(last.response))
          => ( /\ Downloads = {2}
               /\ PolledStatus("DONE")
               /\ last.calls[1].endpoint = "GET /translations"
               /\ HasLocator(last.calls[1].net) )

\* C18 witness: the marker was in the store, the poll asked the upstream,
\* was told DONE with a locator and returned the artifact.
C18_Witness ==
    /\ last.op = "poll"
    /\ last.found = CompletedByWebhook
    /\ PolledStatus("DONE")
    /\ Downloads = {2}
    /\ IsArtifact(last.response)

\* the status query of the poll served last gave no usable status: the call
\* failed, the upstream answered other than 200, or the body did not parse
StatusUnusable ==
    /\ last.op = "poll"
    /\ last.calls # <<>>
    /\ \/ last.calls[1].net.outcome # "Response"
       \/ last.calls[1].net.status_code # 200
       \/ ~last.calls[1].net.json_ok

\* C19: a poll whose status query gives no usable status answers with an
\* error, makes no further upstream call and leaves the store unchanged.
C19_UnusableStatusKeepsStore ==
    StatusUnusable
        => ( /\ last.response.statusCode >= 400
             /\ Len(last.calls) = 1
             /\ last.touched = {}
             /\ in_memory_data_store[last.tid] = last.found )

\* C19 witness: the marker was in the store, the status call failed on the
\* network, the poll answered 502 and the marker is still there.
C19_Witness ==
    /\ StatusUnusable
    /\ last.calls[1].net.outcome = "RequestError"
    /\ last.found = CompletedByWebhook
    /\ last.response.statusCode = 502
    /\ in_memory_data_store[last.tid] = CompletedByWebhook

\* ------------------------------------------------------------------------
\* One request against a store that holds several jobs
\* ------------------------------------------------------------------------
IsoIds == 1..MaxIsoIds

\* what the program can hold about one job: a record in progress and a
\* successful submission both need a translation the upstream knows
JobStates ==
    {j \in [phase : Phases \cup {Absent}, upstream : UpstreamStates, submitted : BOOLEAN] :
        (j.phase = InProgress \/ j.submitted) => j.upstream # "NONE"}

\* any store over several jobs, before the request
IsoInit ==
    \E jobs \in [IsoIds -> JobStates] :
       /\ in_memory_data_store = [t \in IsoIds |-> jobs[t].phase]
       /\ upstream = [t \in IsoIds |-> jobs[t].upstream]
       /\ submitted = {t \in IsoIds : jobs[t].submitted}
       /\ named = {t \in IsoIds : jobs[t].submitted \/ jobs[t].phase # Absent}
       /\ last = [op |-> "none", tid |-> NoId, seq |-> FALSE, query |-> NoQuery, body |-> NoBody,
                  found |-> Absent, first |-> FALSE, touched |-> {},
                  response |-> json_response(0, "", <<>>, NoId), calls |-> <<>>]
       /\ inflight = [p \in Procs |-> Idle]
       /\ hinted = {}

\* one request of any of the three kinds
IsoNext ==
    /\ last.op = "none"
    /\ \/ \E query \in Queries :
             \E net \in SubmitRepliesFor(query) : Submit(query, net)
       \/ \E tid \in IsoIds :
             \E status_net \in StatusReplies(upstream[tid]) :
                \E data_net \in DataRepliesFor(status_net) : Poll(tid, status_net, data_net)
       \/ \E body \in BodiesOver(IsoIds) : Event(body)

IsoSpec == IsoInit /\ [][IsoNext]_vars

\* C20: per-id isolation.  A submit, poll or webhook request changes the
\* store entry of at most the one job id it names; the entries of all other
\* ids are as they were.
C20_PerIdIsolation ==
    last.op # "none" => last.touched \subseteq ({last.tid} \ {NoId})

\* C20 witness: a poll removed the record of the job it names while another
\* job has a record, which is still there.
C20_Witness ==
    /\ last.op = "poll"
    /\ last.touched = {last.tid}
    /\ in_memory_data_store[last.tid] = Absent
    /\ \E t \in IsoIds \ {last.tid} : in_memory_data_store[t] = CompletedByWebhook

\* ------------------------------------------------------------------------
\* Requests in flight: the handler between its upstream calls.  The handler
\* takes no lock, so the steps of several requests interleave freely.
\* ------------------------------------------------------------------------
InFlight(rec) == rec.pc \notin {"idle", "done"}

\* request p begins as rec: it overlaps every request that is in flight
Started(p, rec) ==
    [q \in Procs |->
        IF q = p
        THEN [rec EXCEPT !.concurrent = \E o \in Procs \ {p} : InFlight(inflight[o])]
        ELSE IF InFlight(inflight[q]) THEN [inflight[q] EXCEPT !.concurrent = TRUE]
        ELSE inflight[q]]

\* request p has returned resp
Returned(rec, resp) == [rec EXCEPT !.pc = "done", !.response = resp, !.net = NoNet]

\* the status answer leads the poll on to the download (lines 254-281)
reaches_download(status_net) ==
    /\ ~onshape_api_request("GET", status_net).is_dict
    /\ status_net.status_code = 200
    /\ status_net.json_ok
    /\ status_net.requestState = "DONE"
    /\ ~result_info_missing(status_net.documentId, status_net.resultExternalDataIds)

\* the store write turns the webhook's marker back into in-progress
Overwrites(before, after, tid) ==
    tid # NoId /\ before[tid] = CompletedByWebhook /\ after[tid] = InProgress

\* GET /api/gltf/{tid}, lines 240-252: the store lookup; 202 at once when the
\* record says in-progress, else the status query is sent
PollLookup(p, tid) ==
    LET rec == [Idle EXCEPT !.op = "poll", !.tid = tid,
                            !.found = in_memory_data_store[tid],
                            !.after_hook = tid \in hinted]
    IN  /\ inflight[p].pc = "idle"
        /\ inflight' = Started(p,
              IF in_memory_data_store[tid] = InProgress
              THEN Returned(rec, gltf_result(in_memory_data_store, tid, NoNet, NoNet).response)
              ELSE [rec EXCEPT !.pc = "status"])
        /\ hinted' = hinted \ {tid}
        /\ UNCHANGED <<in_memory_data_store, upstream, submitted, named, last>>

\* the upstream answers the status query from what it knows at that moment
PollStatusAnswered(p, status_net) ==
    /\ inflight[p].pc = "status"
    /\ inflight' = [inflight EXCEPT ![p] = [@ EXCEPT !.pc = "status_reply", !.net = status_net]]
    /\ UNCHANGED <<in_memory_data_store, upstream, submitted, named, last, hinted>>

\* lines 254-281: the handler meets the status answer, writes the store and
\* returns, or goes on to the download
PollDispatch(p) ==
    LET rec == inflight[p]
        out == gltf_status(in_memory_data_store, rec.tid, rec.net, NoNet)
    IN  /\ rec.pc = "status_reply"
        /\ IF reaches_download(rec.net)
           THEN /\ inflight' = [inflight EXCEPT ![p] = [rec EXCEPT !.pc = "download"]]
                /\ UNCHANGED in_memory_data_store
           ELSE /\ inflight' = [inflight EXCEPT ![p] =
                        [Returned(rec, out.response) EXCEPT
                            !.overwrote = rec.stale /\ Overwrites(in_memory_data_store, out.store, rec.tid)]]
                /\ in_memory_data_store' = out.store
        /\ UNCHANGED <<upstream, submitted, named, last, hinted>>

\* lines 289-317: the download comes back, the record is removed and the
\* handler returns
PollDownload(p, data_net) ==
    LET rec == inflight[p]
        out == gltf_download(in_memory_data_store, rec.tid, Call("GET /translations", rec.net), data_net)
    IN  /\ rec.pc = "download"
        /\ inflight' = [inflight EXCEPT ![p] = Returned(rec, out.response)]
        /\ in_memory_data_store' = out.store
        /\ UNCHANGED <<upstream, submitted, named, last, hinted>>

\* GET /api/gltf, lines 155-210: the validation, then the translation request
\* is sent and the upstream answers it (accepting the job under a fresh id,
\* refusing it, or the call fails)
SubmitStart(p, query, net) ==
    LET rec == [Idle EXCEPT !.op = "submit", !.query = query, !.tid = net.id]
    IN  /\ inflight[p].pc = "idle"
        /\ inflight' = Started(p,
              IF net = NoNet
              THEN Returned(rec, gltf_submit(in_memory_data_store, query, net).response)
              ELSE [rec EXCEPT !.pc = "reply", !.net = net])
        /\ upstream' = IF net.outcome = "Response" /\ net.status_code = 200
                            /\ net.json_ok /\ net.id # NoId
                       THEN [upstream EXCEPT ![net.id] = "ACTIVE"] ELSE upstream
        /\ UNCHANGED <<in_memory_data_store, submitted, named, last, hinted>>

\* lines 212-231: the handler meets the upstream's answer, records the job
\* and returns
SubmitRecord(p) ==
    LET rec == inflight[p]
        out == gltf_submit(in_memory_data_store, rec.query, rec.net)
    IN  /\ rec.pc = "reply"
        /\ inflight' = [inflight EXCEPT ![p] =
              [Returned(rec, out.response) EXCEPT
                  !.overwrote = rec.stale /\ Overwrites(in_memory_data_store, out.store, rec.tid)]]
        /\ in_memory_data_store' = out.store
        /\ submitted' = IF out.response.statusCode = 200 /\ out.response.id # NoId
                        THEN submitted \cup {out.response.id} ELSE submitted
        /\ UNCHANGED <<upstream, named, last, hinted>>

\* the webhook request writes the store (line 323-328)
writes_marker(parsed_body) ==
    /\ parsed_body.kind = "object"
    /\ parsed_body.event = CompleteEvent
    /\ parsed_body.translationId # NoId

\* POST /api/event, lines 86-93 and 321-326: the body is parsed and looked at
EventStart(p, parsed_body) ==
    LET rec == [Idle EXCEPT !.op = "event", !.body = parsed_body, !.tid = parsed_body.translationId]
    IN  /\ inflight[p].pc = "idle"
        /\ inflight' = Started(p,
              IF writes_marker(parsed_body)
              THEN [rec EXCEPT !.pc = "write"]
              ELSE Returned(rec, event(in_memory_data_store, parsed_body).response))
        /\ UNCHANGED <<in_memory_data_store, upstream, submitted, named, last, hinted>>

\* lines 328-329: the marker is written and the handler returns.  A request
\* for the same id that has read the store or asked the upstream, and has not
\* yet written, now holds a view older than the notification.
EventWrite(p) ==
    LET rec == inflight[p]
        out == event(in_memory_data_store, rec.body)
        known == in_memory_data_store[rec.tid] # Absent
    IN  /\ rec.pc = "write"
        /\ inflight' = [q \in Procs |->
              IF q = p THEN Returned(rec, out.response)
              ELSE IF /\ known
                      /\ inflight[q].tid = rec.tid
                      /\ inflight[q].pc \in {"status", "status_reply", "reply"}
                   THEN [inflight[q] EXCEPT !.stale = TRUE]
                   ELSE inflight[q]]
        /\ in_memory_data_store' = out.store
        /\ hinted' = IF known THEN hinted \cup {rec.tid} ELSE hinted
        /\ UNCHANGED <<upstream, submitted, named, last>>

\* the response has gone out; the slot is free for the next request
Recycle(p) ==
    /\ inflight[p].pc = "done"
    /\ inflight' = [inflight EXCEPT ![p] = Idle]
    /\ UNCHANGED <<in_memory_data_store, upstream, submitted, named, last, hinted>>

\* the answers the upstream may give to the call request p waits for
StatusRepliesAt(p) ==
    IF inflight[p].pc = "status" THEN StatusReplies(upstream[inflight[p].tid]) ELSE {}

DataRepliesAt(p) ==
    IF inflight[p].pc = "download" THEN DataRepliesFor(inflight[p].net) ELSE {}

ConcNext ==
    \/ \E p \in Procs : \E tid \in Ids : PollLookup(p, tid)
    \/ \E p \in Procs :
          \E status_net \in StatusRepliesAt(p) : PollStatusAnswered(p, status_net)
    \/ \E p \in Procs : PollDispatch(p)
    \/ \E p \in Procs :
          \E data_net \in DataRepliesAt(p) : PollDownload(p, data_net)
    \/ \E p \in Procs : \E query \in Queries :
          \E net \in SubmitRepliesFor(query) : SubmitStart(p, query, net)
    \/ \E p \in Procs : SubmitRecord(p)
    \/ \E p \in Procs : \E body \in Bodies : EventStart(p, body)
    \/ \E p \in Procs : EventWrite(p)
    \/ \E p \in Procs : Recycle(p)
    \/ \E t \in Ids : UpstreamDone(t)
    \/ \E t \in Ids : UpstreamFailed(t)

ConcSpec == Init /\ [][ConcNext]_vars

\* two requests that were in flight at the same time and have both returned
Overlapped(p, q) ==
    /\ p # q
    /\ inflight[p].pc = "done" /\ inflight[q].pc = "done"
    /\ inflight[p].concurrent /\ inflight[q].concurrent

\* C13: no double delivery under concurrency.  Of two polls of the same job
\* that were in flight at the same time, at most one returns the artifact.
C13_NoDoubleDelivery ==
    \A p, q \in Procs :
       ( /\ Overlapped(p, q)
         /\ inflight[p].op = "poll" /\ inflight[q].op = "poll"
         /\ inflight[p].tid = inflight[q].tid )
       => ~(IsArtifact(inflight[p].response) /\ IsArtifact(inflight[q].response))

\* C14: a poll that was told DONE, returned the artifact and removed the
\* record, and a webhook notification for the same job that was in flight at
\* the same time: once both have returned, no record for the job is in the
\* store.
C14_NoResurrectionByRace ==
    \A p, q \in Procs :
       ( /\ Overlapped(p, q)
         /\ inflight[p].op = "poll" /\ IsArtifact(inflight[p].response)
         /\ inflight[q].op = "event" /\ inflight[q].tid = inflight[p].tid )
       => in_memory_data_store[inflight[p].tid] = Absent

\* C15: no lost webhook signal.  No request that read the store or asked the
\* upstream before a webhook notification for a job in the store was
\* processed turns the marker back into in-progress, and the first poll of
\* the job after the notification is not answered 202 from the store alone.
C15_NoLostWebhookSignal ==
    \A p \in Procs :
       /\ ~inflight[p].overwrote
       /\ (inflight[p].op = "poll" /\ inflight[p].after_hook)
             => inflight[p].found # InProgress

====
